---- MODULE Spec2Model ----
(***************************************************************************)
(* k8s-image-swapper: the mutating webhook (pkg/webhook/image_swapper.go)  *)
(* and the ECR registry client (pkg/registry/ecr.go).                       *)
(*                                                                         *)
(* Strings are sequences of tokens: a token is a separator ("." "/" ":")   *)
(* or a run of characters without separators, so that concatenation is \o  *)
(* and string equality is sequence equality.                               *)
(***************************************************************************)
EXTENDS Naturals, Sequences, FiniteSets, TLC

(***************************************************************************)
(* Bounds of the model.                                                    *)
(***************************************************************************)
\* Mutate invocations (admissions), each on its own goroutine.
NumAdmissions == 2
\* Containers admitted in one run, over all admissions: a Pod has at most
\* this many, and as many fewer as other Pods have taken.
MaxContainers == 2
\* pond.New(100, 1000), scaled down: worker goroutines and queue capacity.
MaxWorkers == 2
MaxCapacity == 1
\* Filters of a configuration drawn for the filterMatch check.
MaxFilters == 3
\* Copy tasks followed through their auth file handling.
MaxCopyTasks == 2
\* Authorization tokens ECR issues in one run.
MaxTokens == 3

(***************************************************************************)
(* Image references: github.com/containers/image/v5/docker/reference as    *)
(* used by Mutate.                                                          *)
(***************************************************************************)
\* Runs of lower-case letters and digits (the grammar's alpha-numeric).
Words == {"nginx", "library", "docker", "io", "quay", "r", "example", "com",
          "latest", "localhost"}

defaultDomain == <<"docker", ".", "io">>

legacyDefaultDomain == <<"index", ".", "docker", ".", "io">>

officialRepoName == <<"library">>

defaultTag == <<"latest">>

\* NewECRClient's ecrDomain, returned by Endpoint().
ecrDomain == <<"r", ".", "example", ".", "com">>

\* strings.IndexRune: the first index of token t in s, 0 when absent.
IndexOf(s, t) ==
    IF \E i \in 1..Len(s) : s[i] = t
    THEN CHOOSE i \in 1..Len(s) : s[i] = t /\ \A j \in 1..(i - 1) : s[j] # t
    ELSE 0

\* strings.ContainsAny
ContainsAny(s, ts) == \E i \in 1..Len(s) : s[i] \in ts

\* A non-empty run of words joined by single separators out of seps: the
\* grammar's domain, path and tag productions.
IsJoined(s, seps) ==
    /\ Len(s) % 2 = 1
    /\ \A i \in 1..Len(s) :
          IF i % 2 = 1 THEN s[i] \in Words ELSE s[i] \in seps

\* reference.splitDockerDomain
splitDockerDomain(name) ==
    LET i == IndexOf(name, "/")
        head == SubSeq(name, 1, i - 1)
        plain == i = 0 \/ (~ContainsAny(head, {".", ":"}) /\ head # <<"localhost">>)
        domain0 == IF plain THEN defaultDomain ELSE head
        rem0 == IF plain THEN name ELSE SubSeq(name, i + 1, Len(name))
        domain == IF domain0 = legacyDefaultDomain THEN defaultDomain ELSE domain0
        remainder == IF domain = defaultDomain /\ IndexOf(rem0, "/") = 0
                     THEN officialRepoName \o <<"/">> \o rem0
                     ELSE rem0
    IN  [domain |-> domain, remainder |-> remainder]

\* alltransports.ParseImageName("docker://" + image): ParseNormalizedNamed,
\* then TagNameOnly.  err is TRUE when the string does not match the grammar.
ParseImageName(image) ==
    LET sp == splitDockerDomain(image)
        tagSep == IndexOf(sp.remainder, ":")
        path == IF tagSep = 0 THEN sp.remainder
                ELSE SubSeq(sp.remainder, 1, tagSep - 1)
        tag == IF tagSep = 0 THEN <<>>
               ELSE SubSeq(sp.remainder, tagSep + 1, Len(sp.remainder))
        ok == /\ IsJoined(sp.domain, {".", ":"})
              /\ IsJoined(path, {"/", "."})
              /\ tagSep # 0 => IsJoined(tag, {"."})
    IN  IF ok
        THEN [err |-> FALSE, domain |-> sp.domain, path |-> path,
              tag |-> IF tag = <<>> THEN defaultTag ELSE tag]
        ELSE [err |-> TRUE, domain |-> <<>>, path |-> <<>>, tag |-> <<>>]

\* reference.Domain(ref)
Domain(ref) == ref.domain

\* ref.DockerReference().String()
RefString(ref) == ref.domain \o <<"/">> \o ref.path \o <<":">> \o ref.tag

\* A repository name that is the reference of the target image.
TrimNamedStringOfTarget(ref) == ecrDomain \o <<"/">> \o RefString(ref)

\* reference.TrimNamed(ref).String()
TrimNamedString(ref) == ref.domain \o <<"/">> \o ref.path

\* A target that drops the source's registry domain.
targetNameWithoutDomain(ref) ==
    ecrDomain \o <<"/">> \o ref.path \o <<":">> \o ref.tag

\* (p *ImageSwapper) targetName
targetName(ref) == ecrDomain \o <<"/">> \o RefString(ref)

(***************************************************************************)
(* Pods, containers and admission requests.                                *)
(***************************************************************************)
Container(name, image, policy) ==
    [name |-> name, image |-> image, imagePullPolicy |-> policy]

\* "nginx": no domain, no tag.
cNginx == Container("nginx", <<"nginx">>, "IfNotPresent")

\* Another registry, the same repository path, pulled on every start.
cQuay ==
    Container("sidecar",
              <<"quay", ".", "io", "/", "library", "/", "nginx", ":", "latest">>,
              "Always")

\* Not a reference: ParseImageName fails.
cBad == Container("bad", <<"bad$$image">>, "IfNotPresent")

\* An image of the target registry itself.
cSelf ==
    Container("mirrored",
              ecrDomain \o <<"/", "docker", ".", "io", "/", "library", "/",
                             "nginx", ":", "latest">>,
              "IfNotPresent")

ContainerPool == {cNginx, cQuay, cBad, cSelf}

SeqsUpTo(S, n) == UNION {[1..k -> S] : k \in 0..n}

\* AdmissionRequest.Namespace and the namespace the Pod itself carries.
Requests ==
    {[namespace |-> "kube-system", podNamespace |-> ""],
     [namespace |-> "default", podNamespace |-> "default"]}

\* spec.imagePullSecrets of an admitted Pod.
PullSecretLists == {<<>>, <<"regcred">>}

\* What the cluster answers when a pull secret is read.
SecretOutcomes == {"configError", "getError", "data", "empty"}

NoContainer == Container("", <<>>, "")

\* The Pods the API server can send: any containers of the pool, either
\* request, with or without pull secrets; how many containers a Pod has, and
\* how many all Pods together.
AnyWorkload ==
    [containers |-> ContainerPool, requests |-> Requests,
     secrets |-> PullSecretLists, sizes |-> 1..MaxContainers,
     budget |-> MaxContainers]

\* Every admission is a Pod of namespace default running the same image.
SameImage ==
    [containers |-> {cNginx},
     requests |-> {[namespace |-> "default", podNamespace |-> "default"]},
     secrets |-> {<<>>}, sizes |-> 1..MaxContainers,
     budget |-> MaxContainers]

\* Pods of namespace default without pull secrets, whose images are in
\* other registries and parse.
Mirrored == [SameImage EXCEPT !.containers = {cNginx, cQuay}]

\* A Pod of namespace default with one container more than the pool can
\* hold in its workers and its queue, all of the same image.
Saturating ==
    [SameImage EXCEPT !.sizes = {MaxWorkers + MaxCapacity + 1},
                      !.budget = MaxWorkers + MaxCapacity + 1]

NoPod == [namespace |-> "", containers |-> <<>>, imagePullSecrets |-> <<>>]

(***************************************************************************)
(* Filters: jmespath.Search over the JSON tree of the FilterContext.       *)
(***************************************************************************)
FilterNsEq == "obj.metadata.namespace == 'kube-system'"

FilterNsNe == "obj.metadata.namespace != 'kube-system'"

FilterName == "container.name == 'nginx'"

FilterObj == "obj"

FilterDot == "."

FilterExprs == {FilterNsEq, FilterNsNe, FilterName, FilterObj, FilterDot}

\* Filter lists of the configurations the admissions run under.
ConfiguredFilters == {<<FilterObj, FilterNsEq>>}

\* NewFilterContext, marshalled to JSON and back: the tree the filters see.
FilterContext(namespace, container) ==
    [obj |-> [metadata |-> [namespace |-> namespace]],
     container |-> [name |-> container.name, image |-> container.image]]

BoolResult(b) == [err |-> FALSE, kind |-> "bool", b |-> b]

\* jmespath.Search(filter.JMESPath, filterContext)
Search(expr, tree) ==
    CASE expr = FilterNsEq ->
            BoolResult(tree.obj.metadata.namespace = "kube-system")
      [] expr = FilterNsNe ->
            BoolResult(tree.obj.metadata.namespace # "kube-system")
      [] expr = FilterName -> BoolResult(tree.container.name = "nginx")
      [] expr = FilterObj -> [err |-> FALSE, kind |-> "object", b |-> FALSE]
      [] OTHER -> [err |-> TRUE, kind |-> "none", b |-> FALSE]

\* A filter loop that passes over a failing filter instead of returning.
RECURSIVE filterLoopSkipsErrors(_, _, _)
filterLoopSkipsErrors(tree, fs, idx) ==
    IF idx > Len(fs) THEN FALSE
    ELSE LET results == Search(fs[idx], tree)
         IN  IF ~results.err /\ results.kind = "bool" /\ results.b THEN TRUE
             ELSE filterLoopSkipsErrors(tree, fs, idx + 1)

\* The loop of filterMatch from filter idx on.
RECURSIVE filterLoop(_, _, _)
filterLoop(tree, fs, idx) ==
    IF idx > Len(fs) THEN FALSE
    ELSE LET results == Search(fs[idx], tree)
         IN  IF results.err THEN FALSE
             ELSE IF results.kind = "bool" /\ results.b THEN TRUE
             ELSE filterLoop(tree, fs, idx + 1)

\* filterMatch returns true if one of the filters matches the context
filterMatch(ctx, fs) == filterLoop(ctx, fs, 1)

(***************************************************************************)
(* State.                                                                  *)
(***************************************************************************)
VARIABLES
    \* ImageSwapper: the configured policies and filters
    imageCopyPolicy, imageSwapPolicy, filters,
    \* the Pods the API server sends for admission
    workload,
    \* one Mutate invocation per admission: its position, its Pod, the
    \* request namespace, the loop index i, the range variable container
    \* and the closure copyFn of the current iteration
    pc, pod, request, idx, container, closure,
    \* copier (pond.WorkerPool): the queued tasks, and the copyFn running on
    \* each worker or inline on a Mutate caller
    tasks, exec,
    \* ECRClient.cache (ristretto): the entries Get sees and the Set buffer
    cache, setBuf,
    \* the target registry: its repositories and the images it holds
    repositories, images,
    \* history: the Pods as admitted, what the loop did with each container,
    \* what ImageExists returned in each swap step
    admitted, outcome, swapExists,
    \* history: copy tasks put into the pool, started (and by whom), returned
    submitted, ran, finished,
    \* history: what each copyFn decided after its ImageExists (the value
    \* returned, whether the task ended early, the container it read)
    decided,
    \* history: registry client calls per container
    calls,
    \* history: every inspect of ImageExists (the reference, whether it
    \* succeeded, the value returned, the keys Set), every remote answer
    \* to CreateRepository (likewise), the successful remote creates per
    \* name, and every CreateRepository call (was the name in the cache when
    \* it started, had a call for it returned success before, did it go on
    \* to the remote)
    inspects, createRets, creates, createCalls,
    \* the last application of filterMatch
    filterCall,
    \* copyFn from the pull secrets on: where each copy task is, the file
    \* and the error AuthFile gave it, whether it deferred the removal, the
    \* temp files on disk, and how each task ended
    copyPc, authFile, authErr, cleanup, files, exitPath,
    \* the ECR client's credential: the authToken field (a slice header:
    \* data pointer and length), the client (under construction, ready, or
    \* not returned), where scheduleTokenRenewal is, the token it got, the
    \* word of the header it has still to store, the renewal jobs the
    \* scheduler holds, the tokens issued, how the last renewal ended, and
    \* the last value Credentials returned
    authToken, client, renewPc, newToken, restWord, pending, issued,
    lastRenewal, lastRead,
    \* scheduleTokenRenewal's expiryAt of the token it got last, and the
    \* time the pending renewal job starts at (0: never scheduled)
    expiryAt, renewalAt,
    \* the last ImageExists or CreateRepository call made on its own: the
    \* key, the value returned, and the values a client without a cache
    \* could have returned in the same state of the registry
    lastCall,
    \* per admission, the first loop iteration that begins after its context
    \* was cancelled (0: the context is not cancelled)
    cancelAt

vars ==
    <<imageCopyPolicy, imageSwapPolicy, filters, workload, pc, pod, request, idx,
      container, closure, tasks, exec, cache, setBuf, repositories, images,
      admitted, outcome, swapExists, submitted, ran, finished, decided, calls,
      inspects, createRets, creates, createCalls, filterCall,
      copyPc, authFile, authErr, cleanup, files, exitPath,
      authToken, client, renewPc, newToken, restWord, pending, issued,
      lastRenewal, lastRead, expiryAt, renewalAt, lastCall, cancelAt>>

\* What NewImageSwapper was given, and the Pods the API server sends.
configVars == <<imageCopyPolicy, imageSwapPolicy, filters, workload>>

authVars == <<copyPc, authFile, authErr, cleanup, files, exitPath>>

credVars ==
    <<authToken, client, renewPc, newToken, restWord, pending, issued,
      lastRenewal, lastRead, expiryAt, renewalAt>>

\* The variables Mutate, the pool and the registry client leave alone.
auxVars == <<filterCall, authVars, credVars, lastCall, cancelAt>>

remoteVars == <<repositories, images>>

Adm == 1..NumAdmissions

Workers == 1..MaxWorkers

Worker(w) == [kind |-> "worker", id |-> w]

Caller(a) == [kind |-> "caller", id |-> a]

\* Who can run a copyFn: the pool's workers, and a Mutate caller (Force).
Execs == {Worker(w) : w \in Workers} \cup {Caller(a) : a \in Adm}

CopyPolicies == {"Delayed", "Immediate", "Force"}

SwapPolicies == {"Always", "Exists"}

NoTask ==
    [adm |-> 0, idx |-> 0, source |-> <<>>, target |-> <<>>, repo |-> <<>>,
     wait |-> FALSE]

Idle == [pc |-> "idle", task |-> NoTask]

\* Every repository name a container of the pool can lead to.
RepoNames ==
    {TrimNamedString(ParseImageName(c.image)) :
        c \in {d \in ContainerPool : ~ParseImageName(d.image).err}}

NoFilterCall == [ctx |-> FilterContext("", NoContainer), filters |-> <<>>, matched |-> FALSE]

\* The copy tasks followed from the pull secrets on.
CopyTasks == 1..MaxCopyTasks

\* authFile == nil
NoFile == 0

\* A []byte is a data pointer and a length; the nil slice.
NoToken == [ptr |-> 0, len |-> 0]

\* No ImageExists or CreateRepository call on its own yet.
NoCall == [op |-> "none", key |-> <<>>, ret |-> FALSE, cacheless |-> {}]

\* Credentials has not been called.
NoRead == [ptr |-> 0, len |-> 0, racing |-> FALSE]

\* NewImageSwapper, NewECRClient: no admission yet, an empty pool and cache;
\* NewECRClient is in its call of scheduleTokenRenewal.
InitClient ==
    /\ pc = [a \in Adm |-> "idle"]
    /\ pod = [a \in Adm |-> NoPod]
    /\ request = [a \in Adm |-> ""]
    /\ idx = [a \in Adm |-> 0]
    /\ container = [a \in Adm |-> NoContainer]
    /\ closure = [a \in Adm |-> NoTask]
    /\ tasks = <<>>
    /\ exec = [e \in Execs |-> Idle]
    /\ cache = {}
    /\ setBuf = <<>>
    /\ admitted = [a \in Adm |-> NoPod]
    /\ outcome = [a \in Adm |-> <<>>]
    /\ swapExists = [a \in Adm |-> <<>>]
    /\ submitted = {}
    /\ ran = {}
    /\ finished = {}
    /\ decided = {}
    /\ calls = {}
    /\ inspects = {}
    /\ createRets = {}
    /\ creates = [n \in RepoNames |-> 0]
    /\ createCalls = {}
    /\ filterCall = NoFilterCall
    /\ copyPc = [t \in CopyTasks |-> "secrets"]
    /\ authFile = [t \in CopyTasks |-> NoFile]
    /\ authErr = [t \in CopyTasks |-> FALSE]
    /\ cleanup = [t \in CopyTasks |-> FALSE]
    /\ files = {}
    /\ exitPath = [t \in CopyTasks |-> "running"]
    /\ authToken = NoToken
    /\ client = "new"
    /\ renewPc = "request"
    /\ newToken = NoToken
    /\ restWord = "none"
    /\ pending = 0
    /\ issued = {}
    /\ lastRenewal = "none"
    /\ lastRead = NoRead
    /\ expiryAt = 0
    /\ renewalAt = 0
    /\ lastCall = NoCall
    /\ cancelAt = [a \in Adm |-> 0]

\* The target registry is empty when the webhook starts.
InitState ==
    /\ InitClient
    /\ workload = AnyWorkload
    /\ repositories = {}
    /\ images = {}

Init ==
    /\ imageCopyPolicy \in CopyPolicies
    /\ imageSwapPolicy \in SwapPolicies
    /\ filters \in ConfiguredFilters
    /\ InitState

admVars == <<pc, pod, request, idx, container, closure>>

poolVars == <<tasks, exec>>

cacheVars == <<cache, setBuf>>

admHist == <<admitted, outcome, swapExists>>

copyHist == <<submitted, ran, finished, decided>>

regHist == <<inspects, createRets, creates, createCalls>>

(***************************************************************************)
(* ECRClient: the pieces of ImageExists and CreateRepository.              *)
(***************************************************************************)
\* Endpoint()
Endpoint == ecrDomain

\* e.cache.Get(key): found
CacheGet(key) == key \in cache

\* What "skopeo inspect" can answer for ref: it succeeds only for an image
\* the registry holds, and can fail for any (registry error, expired token).
InspectOutcomes(ref) == IF ref \in images THEN {TRUE, FALSE} ELSE {FALSE}

\* A probe that caches the reference whatever the inspect answered.
ImageExistsProbeCachesMiss(ref, ok) == [ret |-> ok, set |-> <<ref>>]

\* ImageExists after a cache miss, given whether the inspect succeeded: the
\* value returned and the keys handed to cache.Set.
ImageExistsProbe(ref, ok) ==
    [ret |-> ok, set |-> IF ok THEN <<ref>> ELSE <<>>]

\* What the ECR API can answer to CreateRepository(name).
CreateOutcomes(name) ==
    IF name \in repositories THEN {"exists", "error"} ELSE {"created", "error"}

\* A create that returns "already exists" to its caller as an error.
CreateRepositoryRemoteStrict(name, answer) ==
    IF answer = "created"
    THEN [err |-> FALSE, set |-> <<name>>]
    ELSE [err |-> TRUE, set |-> <<>>]

\* CreateRepository after a cache miss, given the remote answer: whether an
\* error is returned and the keys handed to cache.Set.
CreateRepositoryRemote(name, answer) ==
    IF answer = "error"
    THEN [err |-> TRUE, set |-> <<>>]
    ELSE [err |-> FALSE, set |-> <<name>>]

\* What "skopeo copy" into repository repo can end with: it succeeds only
\* into an existing repository.
CopyOutcomes(repo) == IF repo \in repositories THEN {TRUE, FALSE} ELSE {FALSE}

\* e.cache.Set(key, "", 1) for each of keys: a new item goes to the Set
\* buffer, and Get finds it once processItems has applied it (a Set that is
\* dropped is one that is never applied; a key that is already buffered is
\* not buffered again, since applying it twice changes nothing).
CacheSet(keys) ==
    LET IsNew(key) == key \notin cache /\ \A i \in 1..Len(setBuf) : setBuf[i] # key
    IN  setBuf' = setBuf \o SelectSeq(keys, IsNew)

\* The record of one inspect: the reference, whether the inspect succeeded,
\* and what ImageExists made of it.
Inspect(ref, ok, r) == [ref |-> ref, ok |-> ok, ret |-> r.ret, set |-> r.set]

\* The names some CreateRepository call has returned success for.
Created == {r.name : r \in {x \in createRets : ~x.err}}

\* The record of one CreateRepository call at its start.
CreateCall(name, remote) ==
    [name |-> name, cached |-> name \in cache,
     afterSuccess |-> name \in Created, remote |-> remote]

\* The cache's processItems goroutine applies the oldest buffered Set.
ProcessItems ==
    /\ setBuf # <<>>
    /\ cache' = cache \cup {Head(setBuf)}
    /\ setBuf' = Tail(setBuf)
    /\ UNCHANGED <<configVars, admVars, poolVars, remoteVars, admHist,
                   copyHist, calls, regHist, auxVars>>

(***************************************************************************)
(* Mutate.                                                                 *)
(***************************************************************************)
\* getPullSecretsAuthTokens(pod): every failure to read a secret panics,
\* and so does the write of a token into the nil map allTokens.
getPullSecretsAuthTokens(p, answer) ==
    IF p.imagePullSecrets = <<>> \/ answer = "empty" THEN "ok" ELSE "panic"

\* The containers of the Pods admitted so far.
RECURSIVE AdmittedUpTo(_)
AdmittedUpTo(a) ==
    IF a = 0 THEN 0 ELSE Len(admitted[a].containers) + AdmittedUpTo(a - 1)

Admitted == AdmittedUpTo(NumAdmissions)

\* Mutate is called with Pod p in a request of namespace ns: up to the loop
\* over pod.Spec.Containers.
Admit(a, p, ns, answer) ==
    /\ pod' = [pod EXCEPT ![a] = p]
    /\ admitted' = [admitted EXCEPT ![a] = p]
    /\ request' = [request EXCEPT ![a] = ns]
    /\ outcome' = [outcome EXCEPT ![a] =
                      [i \in 1..Len(p.containers) |-> "pending"]]
    /\ swapExists' = [swapExists EXCEPT ![a] =
                         [i \in 1..Len(p.containers) |-> "none"]]
    /\ idx' = [idx EXCEPT ![a] = 1]
    /\ pc' = [pc EXCEPT ![a] =
                 IF getPullSecretsAuthTokens(p, answer) = "panic"
                 THEN "panicked" ELSE "loop"]

\* An admission arrives: Mutate up to the loop over pod.Spec.Containers.
Start(a) ==
    /\ pc[a] = "idle"
    \* admissions are numbered in the order of their arrival
    /\ IF a = 1 THEN TRUE ELSE pc[a - 1] # "idle"
    /\ \E cs \in {s \in SeqsUpTo(workload.containers, workload.budget - Admitted) :
                      Len(s) \in workload.sizes},
          rq \in workload.requests, ps \in workload.secrets,
          answer \in SecretOutcomes :
          Admit(a, [namespace |-> rq.podNamespace, containers |-> cs,
                    imagePullSecrets |-> ps], rq.namespace, answer)
    /\ UNCHANGED <<configVars, container, closure, poolVars, cacheVars,
                   remoteVars, copyHist, calls, regHist, auxVars>>

\* The Pod an earlier Mutate returned is sent for admission again, in a
\* request of the same namespace.
StartAgain(a) ==
    /\ pc[a] = "idle"
    /\ IF a = 1 THEN TRUE ELSE pc[a - 1] # "idle"
    /\ \E b \in Adm, answer \in SecretOutcomes :
          /\ pc[b] = "done"
          /\ Len(pod[b].containers) <= workload.budget - Admitted
          /\ Admit(a, pod[b], request[b], answer)
    /\ UNCHANGED <<configVars, container, closure, poolVars, cacheVars,
                   remoteVars, copyHist, calls, regHist, auxVars>>

\* A loop without the same-registry skip.
SameRegistryNever(srcRef) == FALSE

\* A skip that compares the whole source name with the endpoint.
SameRegistryWholeName(srcRef) == RefString(srcRef) = Endpoint

\* skip if the source and target registry domain are equal
SameRegistry(srcRef) == Domain(srcRef) = Endpoint

\* A loop that ignores the filters.
SkipsOnFilterNever(matched) == FALSE

\* if filterMatch(filterCtx, p.filters) { continue }
SkipsOnFilter(matched) == matched

\* break in place of continue: the loop ends at this container.
ContinueBreaks(a, what) ==
    /\ outcome' = [outcome EXCEPT ![a][idx[a]] = what]
    /\ idx' = [idx EXCEPT ![a] = Len(pod[a].containers) + 1]

\* continue: on to the next container.
Continue(a, what) ==
    /\ outcome' = [outcome EXCEPT ![a][idx[a]] = what]
    /\ idx' = [idx EXCEPT ![a] = idx[a] + 1]

\* One iteration of the loop up to the construction of copyFn: parse, the
\* self-registry check, the filters, targetName.
LoopStep(a) ==
    /\ pc[a] = "loop"
    /\ idx[a] <= Len(pod[a].containers)
    /\ LET c == pod[a].containers[idx[a]]
           srcRef == ParseImageName(c.image)
           ns == IF pod[a].namespace = "" THEN request[a] ELSE pod[a].namespace
       IN  /\ container' = [container EXCEPT ![a] = c]
           /\ \/ /\ srcRef.err
                 /\ Continue(a, "invalid")
                 /\ UNCHANGED <<pc, pod, closure>>
              \/ /\ ~srcRef.err
                 /\ SameRegistry(srcRef)
                 /\ Continue(a, "self")
                 /\ UNCHANGED <<pc, pod, closure>>
              \/ /\ ~srcRef.err
                 /\ ~SameRegistry(srcRef)
                 /\ pod' = [pod EXCEPT ![a].namespace = ns]
                 /\ SkipsOnFilter(filterMatch(FilterContext(ns, c), filters))
                 /\ Continue(a, "filtered")
                 /\ UNCHANGED <<pc, closure>>
              \/ /\ ~srcRef.err
                 /\ ~SameRegistry(srcRef)
                 /\ pod' = [pod EXCEPT ![a].namespace = ns]
                 /\ ~SkipsOnFilter(filterMatch(FilterContext(ns, c), filters))
                 /\ closure' = [closure EXCEPT ![a] =
                        [adm |-> a, idx |-> idx[a], source |-> RefString(srcRef),
                         target |-> targetName(srcRef),
                         repo |-> TrimNamedString(srcRef), wait |-> FALSE]]
                 /\ pc' = [pc EXCEPT ![a] = "dispatch"]
                 /\ UNCHANGED <<idx, outcome>>
    /\ UNCHANGED <<configVars, request, poolVars, cacheVars, remoteVars,
                   admitted, swapExists, copyHist, calls, regHist, auxVars>>

\* The loop is over: return false, nil.
Return(a) ==
    /\ pc[a] = "loop"
    /\ idx[a] > Len(pod[a].containers)
    /\ pc' = [pc EXCEPT ![a] = "done"]
    /\ UNCHANGED <<configVars, pod, request, idx, container, closure, poolVars,
                   cacheVars, remoteVars, admHist, copyHist, calls, regHist,
                   auxVars>>

\* A dispatch that submits without waiting under every policy.
DispatchModeNoWait(policy) ==
    [pool |-> policy # "Force", wait |-> policy = "Force"]

\* switch p.imageCopyPolicy: does copyFn go through the pool, and does the
\* caller go on only when copyFn has returned.
DispatchMode(policy) ==
    CASE policy = "Delayed" -> [pool |-> TRUE, wait |-> FALSE]
      [] policy = "Immediate" -> [pool |-> TRUE, wait |-> TRUE]
      [] policy = "Force" -> [pool |-> FALSE, wait |-> TRUE]

\* A pool whose Submit returns at once and drops the task when the queue is
\* full.
SubmitDrops(queue, task) ==
    [blocks |-> FALSE,
     queue |-> IF Len(queue) < MaxCapacity THEN Append(queue, task) ELSE queue]

\* pond's Submit (and the submit of SubmitAndWait): the task is sent to the
\* pool's buffered channel of tasks, and the send blocks while it is full.
Submit(queue, task) ==
    [blocks |-> Len(queue) >= MaxCapacity, queue |-> Append(queue, task)]

\* The dispatch of copyFn: Submit and SubmitAndWait put it into the queue
\* of the pool (and wait while the queue is full), Force calls it.
Dispatch(a) ==
    /\ pc[a] = "dispatch"
    /\ imageCopyPolicy \in CopyPolicies
    /\ LET mode == DispatchMode(imageCopyPolicy)
           sent == Submit(tasks, [closure[a] EXCEPT !.wait = mode.wait])
       IN  \/ /\ mode.pool
              /\ ~sent.blocks
              /\ tasks' = sent.queue
              /\ submitted' = submitted \cup {<<a, idx[a]>>}
              /\ pc' = [pc EXCEPT ![a] = IF mode.wait THEN "wait" ELSE "swap"]
              /\ UNCHANGED <<exec, ran>>
           \/ /\ ~mode.pool
              /\ exec' = [exec EXCEPT ![Caller(a)] =
                             [pc |-> "exists", task |-> closure[a]]]
              /\ ran' = ran \cup {[adm |-> a, idx |-> idx[a], by |-> "caller"]}
              /\ pc' = [pc EXCEPT ![a] = "force"]
              /\ UNCHANGED <<tasks, submitted>>
    /\ UNCHANGED <<configVars, pod, request, idx, container, closure,
                   cacheVars, remoteVars, admHist, finished, decided, calls,
                   regHist, auxVars>>

\* switch p.imageCopyPolicy, default: panic("unknown imageCopyPolicy")
DispatchDefault(a) ==
    /\ pc[a] = "dispatch"
    /\ imageCopyPolicy \notin CopyPolicies
    /\ outcome' = [outcome EXCEPT ![a][idx[a]] = "unknownPolicy"]
    /\ pc' = [pc EXCEPT ![a] = "panicked"]
    /\ UNCHANGED <<configVars, pod, request, idx, container, closure, poolVars,
                   cacheVars, remoteVars, admitted, swapExists, copyHist,
                   calls, regHist, auxVars>>

\* switch p.imageSwapPolicy, default: panic("unknown imageSwapPolicy")
SwapDefault(a) ==
    /\ pc[a] = "swap"
    /\ imageSwapPolicy \notin SwapPolicies
    /\ outcome' = [outcome EXCEPT ![a][idx[a]] = "unknownPolicy"]
    /\ pc' = [pc EXCEPT ![a] = "panicked"]
    /\ UNCHANGED <<configVars, pod, request, idx, container, closure, poolVars,
                   cacheVars, remoteVars, admitted, swapExists, copyHist,
                   calls, regHist, auxVars>>

\* pod.Spec.Containers[i].Image = targetImage
SetImage(a) ==
    pod' = [pod EXCEPT ![a].containers[idx[a]].image = closure[a].target]

\* A swap under Exists that ignores what ImageExists returned.
ExistsSwapAlways(exists) == TRUE

\* case ImageSwapPolicyExists: the image is set if ImageExists returned true.
ExistsSwap(exists) == exists

\* The end of an iteration under ImageSwapPolicyExists, ImageExists having
\* returned exists.
SwapOnExists(a, exists) ==
    /\ swapExists' = [swapExists EXCEPT ![a][idx[a]] =
                         IF exists THEN "true" ELSE "false"]
    /\ IF ExistsSwap(exists) THEN SetImage(a) ELSE UNCHANGED pod
    /\ Continue(a, "processed")
    /\ pc' = [pc EXCEPT ![a] = "loop"]

\* switch p.imageSwapPolicy, case ImageSwapPolicyAlways
SwapAlways(a) ==
    /\ pc[a] = "swap"
    /\ imageSwapPolicy = "Always"
    /\ SetImage(a)
    /\ Continue(a, "processed")
    /\ pc' = [pc EXCEPT ![a] = "loop"]
    /\ UNCHANGED <<configVars, request, container, closure, poolVars,
                   cacheVars, remoteVars, admitted, swapExists, copyHist,
                   calls, regHist, auxVars>>

\* case ImageSwapPolicyExists: ImageExists(targetImage), the cache lookup.
SwapExistsGet(a) ==
    /\ pc[a] = "swap"
    /\ imageSwapPolicy = "Exists"
    /\ calls' = calls \cup {[adm |-> a, idx |-> idx[a], op |-> "ImageExists"]}
    /\ \/ /\ CacheGet(closure[a].target)
          /\ SwapOnExists(a, TRUE)
       \/ /\ ~CacheGet(closure[a].target)
          /\ pc' = [pc EXCEPT ![a] = "swapProbe"]
          /\ UNCHANGED <<pod, idx, outcome, swapExists>>
    /\ UNCHANGED <<configVars, request, container, closure, poolVars,
                   cacheVars, remoteVars, admitted, copyHist, regHist,
                   auxVars>>

\* case ImageSwapPolicyExists: ImageExists(targetImage), the inspect.
SwapExistsProbe(a) ==
    /\ pc[a] = "swapProbe"
    /\ \E ok \in InspectOutcomes(closure[a].target) :
          LET r == ImageExistsProbe(closure[a].target, ok)
          IN  /\ CacheSet(r.set)
              /\ inspects' = inspects \cup {Inspect(closure[a].target, ok, r)}
              /\ SwapOnExists(a, r.ret)
    /\ UNCHANGED <<configVars, request, container, closure, poolVars, cache,
                   remoteVars, admitted, copyHist, calls, createRets, creates,
                   createCalls, auxVars>>

(***************************************************************************)
(* copyFn, run by a worker of the pool or by the Mutate caller.            *)
(***************************************************************************)
\* A worker takes the next task of the queue.
WorkerTake(w) ==
    /\ exec[Worker(w)].pc = "idle"
    /\ tasks # <<>>
    /\ exec' = [exec EXCEPT ![Worker(w)] = [pc |-> "exists", task |-> Head(tasks)]]
    /\ tasks' = Tail(tasks)
    /\ ran' = ran \cup {[adm |-> Head(tasks).adm, idx |-> Head(tasks).idx,
                         by |-> "worker"]}
    /\ UNCHANGED <<configVars, admVars, cacheVars, remoteVars, admHist,
                   submitted, finished, decided, calls, regHist, auxVars>>

\* copyFn returns on e: a worker is free again, and a caller that waits for
\* it (SubmitAndWait, the inline call) goes on to the swap policy.
Returns(e) ==
    LET t == exec[e].task
    IN  /\ exec' = [exec EXCEPT ![e] = Idle]
        /\ finished' = finished \cup {<<t.adm, t.idx>>}
        /\ pc' = IF e.kind = "caller" \/ t.wait
                 THEN [pc EXCEPT ![t.adm] = "swap"]
                 ELSE pc

\* A copyFn that returns before it creates the repository or copies.
EndsEarlyAlways(exists, pullPolicy) == TRUE

\* ImageExists(targetImage) && container.ImagePullPolicy != corev1.PullAlways
EndsEarly(exists, pullPolicy) == exists /\ pullPolicy # "Always"

\* copyFn after its ImageExists returned exists.  container is the range
\* variable of the Mutate invocation that built the closure, read now.
AfterExists(e, exists) ==
    LET early == EndsEarly(exists, container[exec[e].task.adm].imagePullPolicy)
    IN  /\ decided' = decided \cup
              {[adm |-> exec[e].task.adm, idx |-> exec[e].task.idx,
                exists |-> exists, early |-> early,
                container |-> container[exec[e].task.adm]]}
        /\ IF early
           THEN Returns(e)
           ELSE /\ exec' = [exec EXCEPT ![e].pc = "createGet"]
                /\ UNCHANGED <<finished, pc>>

\* copyFn: ImageExists(targetImage), the cache lookup.
CopyExistsGet(e) ==
    /\ exec[e].pc = "exists"
    /\ calls' = calls \cup {[adm |-> exec[e].task.adm, idx |-> exec[e].task.idx,
                             op |-> "ImageExists"]}
    /\ \/ /\ CacheGet(exec[e].task.target)
          /\ AfterExists(e, TRUE)
       \/ /\ ~CacheGet(exec[e].task.target)
          /\ exec' = [exec EXCEPT ![e].pc = "existsProbe"]
          /\ UNCHANGED <<finished, pc, decided>>
    /\ UNCHANGED <<configVars, pod, request, idx, container, closure, tasks,
                   cacheVars, remoteVars, admHist, submitted, ran, regHist,
                   auxVars>>

\* copyFn: ImageExists(targetImage), the inspect.
CopyExistsProbe(e) ==
    /\ exec[e].pc = "existsProbe"
    /\ \E ok \in InspectOutcomes(exec[e].task.target) :
          LET r == ImageExistsProbe(exec[e].task.target, ok)
          IN  /\ CacheSet(r.set)
              /\ inspects' = inspects \cup {Inspect(exec[e].task.target, ok, r)}
              /\ AfterExists(e, r.ret)
    /\ UNCHANGED <<configVars, pod, request, idx, container, closure, tasks,
                   cache, remoteVars, admHist, submitted, ran, calls,
                   createRets, creates, createCalls, auxVars>>

\* copyFn: CreateRepository(createRepoName), the cache lookup.
CreateGet(e) ==
    /\ exec[e].pc = "createGet"
    /\ calls' = calls \cup {[adm |-> exec[e].task.adm, idx |-> exec[e].task.idx,
                             op |-> "CreateRepository"]}
    /\ \/ /\ CacheGet(exec[e].task.repo)
          /\ exec' = [exec EXCEPT ![e].pc = "copy"]
          /\ createCalls' = createCalls \cup {CreateCall(exec[e].task.repo, FALSE)}
       \/ /\ ~CacheGet(exec[e].task.repo)
          /\ exec' = [exec EXCEPT ![e].pc = "createRemote"]
          /\ createCalls' = createCalls \cup {CreateCall(exec[e].task.repo, TRUE)}
    /\ UNCHANGED <<configVars, admVars, tasks, cacheVars, remoteVars, admHist,
                   copyHist, inspects, createRets, creates, auxVars>>

\* A copyFn that returns when CreateRepository fails.
AfterCreateReturnsOnError(err) == IF err THEN "return" ELSE "copy"

\* if err := p.registryClient.CreateRepository(createRepoName); err != nil
\* { log.Err(err) }: copyFn goes on to copyImage either way.
AfterCreate(err) == "copy"

\* copyFn: CreateRepository(createRepoName), the request to ECR.
CreateRemote(e) ==
    /\ exec[e].pc = "createRemote"
    /\ \E answer \in CreateOutcomes(exec[e].task.repo) :
          LET name == exec[e].task.repo
              r == CreateRepositoryRemote(name, answer)
          IN  /\ repositories' = IF answer = "created"
                                 THEN repositories \cup {name}
                                 ELSE repositories
              /\ creates' = IF answer = "created"
                            THEN [creates EXCEPT ![name] = creates[name] + 1]
                            ELSE creates
              /\ createRets' = createRets \cup
                    {[name |-> name, answer |-> answer, err |-> r.err,
                      set |-> r.set]}
              /\ CacheSet(r.set)
              /\ IF AfterCreate(r.err) = "copy"
                 THEN /\ exec' = [exec EXCEPT ![e].pc = "copy"]
                      /\ UNCHANGED <<finished, pc>>
                 ELSE Returns(e)
    /\ UNCHANGED <<configVars, pod, request, idx, container, closure, tasks,
                   cache, images, admHist, submitted, ran, decided, calls,
                   inspects, createCalls, auxVars>>

\* copyFn: copyImage(source, "", targetImage, Credentials()), and return.
CopyImage(e) ==
    /\ exec[e].pc = "copy"
    /\ calls' = calls \cup {[adm |-> exec[e].task.adm, idx |-> exec[e].task.idx,
                             op |-> "copyImage"]}
    /\ \E ok \in CopyOutcomes(exec[e].task.repo) :
          images' = IF ok THEN images \cup {exec[e].task.target} ELSE images
    /\ Returns(e)
    /\ UNCHANGED <<configVars, pod, request, idx, container, closure, tasks,
                   cacheVars, repositories, admHist, submitted, ran, decided,
                   regHist, auxVars>>

(***************************************************************************)
(* The webhook under its configured policies.                              *)
(***************************************************************************)
Next ==
    \/ \E a \in Adm : Start(a)
    \/ \E a \in Adm : LoopStep(a)
    \/ \E a \in Adm : Return(a)
    \/ \E a \in Adm : Dispatch(a)
    \/ \E a \in Adm : SwapAlways(a)
    \/ \E a \in Adm : SwapExistsGet(a)
    \/ \E a \in Adm : SwapExistsProbe(a)
    \/ \E w \in Workers : WorkerTake(w)
    \/ \E e \in Execs : CopyExistsGet(e)
    \/ \E e \in Execs : CopyExistsProbe(e)
    \/ \E e \in Execs : CreateGet(e)
    \/ \E e \in Execs : CreateRemote(e)
    \/ \E e \in Execs : CopyImage(e)
    \/ ProcessItems

Spec == Init /\ [][Next]_vars

(***************************************************************************)
(* The webhook in front of a target registry that already mirrors every    *)
(* image of the pool.                                                      *)
(***************************************************************************)
\* The references of the pool's images that Mutate neither rejects nor
\* finds to be of the target registry.
MirroredRefs ==
    {ParseImageName(c.image) :
        c \in {d \in ContainerPool :
                   /\ ~ParseImageName(d.image).err
                   /\ Domain(ParseImageName(d.image)) # Endpoint}}

InitMirror ==
    /\ imageCopyPolicy \in CopyPolicies
    /\ imageSwapPolicy \in SwapPolicies
    /\ filters \in ConfiguredFilters
    /\ InitClient
    /\ workload = Mirrored
    /\ repositories = {TrimNamedString(ref) : ref \in MirroredRefs}
    /\ images = {targetName(ref) : ref \in MirroredRefs}

SpecMirror == InitMirror /\ [][Next]_vars

(***************************************************************************)
(* Repeated admissions of one image under Delayed and Exists: the API      *)
(* server keeps sending Pods that run the same source image.               *)
(***************************************************************************)
\* Every Mutate invocation has returned (or died) and the pool has run its
\* tasks: the next admissions start from fresh Pods, in front of the same
\* registry and cache. What is recorded is recorded per round.
NextRound ==
    /\ pc[1] # "idle"
    /\ \A a \in Adm : pc[a] \in {"idle", "done", "panicked"}
    /\ tasks = <<>>
    /\ \A e \in Execs : exec[e] = Idle
    /\ pc' = [a \in Adm |-> "idle"]
    /\ pod' = [a \in Adm |-> NoPod]
    /\ admitted' = [a \in Adm |-> NoPod]
    /\ request' = [a \in Adm |-> ""]
    /\ idx' = [a \in Adm |-> 0]
    /\ container' = [a \in Adm |-> NoContainer]
    /\ closure' = [a \in Adm |-> NoTask]
    /\ outcome' = [a \in Adm |-> <<>>]
    /\ swapExists' = [a \in Adm |-> <<>>]
    /\ submitted' = {}
    /\ ran' = {}
    /\ finished' = {}
    /\ decided' = {}
    /\ calls' = {}
    /\ inspects' = {}
    /\ createRets' = {}
    /\ creates' = [n \in RepoNames |-> 0]
    /\ createCalls' = {}
    /\ UNCHANGED <<configVars, poolVars, cacheVars, remoteVars, auxVars>>

InitRepeat ==
    /\ imageCopyPolicy = "Delayed"
    /\ imageSwapPolicy = "Exists"
    /\ filters \in ConfiguredFilters
    /\ workload = SameImage
    /\ InitClient
    /\ repositories = {}
    /\ images = {}

\* The webhook under ImageSwapPolicyExists, which never takes the case
\* ImageSwapPolicyAlways of Mutate's switch.
NextRepeat ==
    \/ \E a \in Adm : Start(a)
    \/ \E a \in Adm : LoopStep(a)
    \/ \E a \in Adm : Return(a)
    \/ \E a \in Adm : Dispatch(a)
    \/ \E a \in Adm : SwapExistsGet(a)
    \/ \E a \in Adm : SwapExistsProbe(a)
    \/ \E w \in Workers : WorkerTake(w)
    \/ \E e \in Execs : CopyExistsGet(e)
    \/ \E e \in Execs : CopyExistsProbe(e)
    \/ \E e \in Execs : CreateGet(e)
    \/ \E e \in Execs : CreateRemote(e)
    \/ \E e \in Execs : CopyImage(e)
    \/ ProcessItems
    \/ NextRound

\* ECR creates the repository when asked.
RepositoryCreated(e) == CreateRemote(e) /\ repositories' # repositories

\* "skopeo copy" succeeds.
CopySucceeds(e) == CopyImage(e) /\ images' # images

\* The inspect of the swap step succeeds.
ProbeSucceeds(a) ==
    SwapExistsProbe(a) /\ pc[a] = "swapProbe" /\ swapExists'[a][idx[a]] = "true"

\* Admissions keep arriving and some goroutine that can run does run; and
\* ECR, the copy and the inspect of a present target do not fail for ever.
FairRepeat ==
    /\ WF_vars(NextRepeat)
    /\ SF_vars(\E e \in Execs : RepositoryCreated(e))
    /\ SF_vars(\E e \in Execs : CopySucceeds(e))
    /\ SF_vars(\E a \in Adm : ProbeSucceeds(a))

SpecRepeat == InitRepeat /\ [][NextRepeat]_vars /\ FairRepeat

(***************************************************************************)
(* The pool under load: Delayed and Always, with more copy tasks than the  *)
(* workers and the queue take.                                             *)
(***************************************************************************)
InitSaturated ==
    /\ imageCopyPolicy = "Delayed"
    /\ imageSwapPolicy = "Always"
    /\ filters \in ConfiguredFilters
    /\ workload = Saturating
    /\ InitClient
    /\ repositories = {}
    /\ images = {}

\* The webhook under Delayed and Always, which never calls ImageExists in
\* the swap step.
NextSaturated ==
    \/ \E a \in Adm : Start(a)
    \/ \E a \in Adm : LoopStep(a)
    \/ \E a \in Adm : Return(a)
    \/ \E a \in Adm : Dispatch(a)
    \/ \E a \in Adm : SwapAlways(a)
    \/ \E w \in Workers : WorkerTake(w)
    \/ \E e \in Execs : CopyExistsGet(e)
    \/ \E e \in Execs : CopyExistsProbe(e)
    \/ \E e \in Execs : CreateGet(e)
    \/ \E e \in Execs : CreateRemote(e)
    \/ \E e \in Execs : CopyImage(e)
    \/ ProcessItems

SpecSaturated == InitSaturated /\ [][NextSaturated]_vars

(***************************************************************************)
(* An ImageSwapper constructed from any policy values, those of the enums  *)
(* and one outside of them.                                                *)
(***************************************************************************)
\* A value of types.ImageCopyPolicy or types.ImageSwapPolicy that is none of
\* the named ones.
UnknownPolicy == "Unknown"

\* NewImageSwapper: the policies are stored as they are given, and the
\* constructor has no failure.
NewImageSwapper(swapPolicy, copyPolicy) ==
    [ok |-> TRUE, imageSwapPolicy |-> swapPolicy, imageCopyPolicy |-> copyPolicy]

InitUnknown ==
    /\ \E swapPolicy \in SwapPolicies \cup {UnknownPolicy},
          copyPolicy \in CopyPolicies \cup {UnknownPolicy} :
          LET swapper == NewImageSwapper(swapPolicy, copyPolicy)
          IN  /\ swapper.ok
              /\ imageSwapPolicy = swapper.imageSwapPolicy
              /\ imageCopyPolicy = swapper.imageCopyPolicy
    /\ filters \in ConfiguredFilters
    /\ workload = SameImage
    /\ InitClient
    /\ repositories = {}
    /\ images = {}

NextUnknown ==
    \/ Next
    \/ \E a \in Adm : DispatchDefault(a)
    \/ \E a \in Adm : SwapDefault(a)

SpecUnknown == InitUnknown /\ [][NextUnknown]_vars

(***************************************************************************)
(* Admissions whose context is cancelled while Mutate runs.                *)
(***************************************************************************)
\* The context of admission a is done (the API server gave up, the timeout
\* of the request passed) while Mutate is in its loop: the iterations from
\* the next one on begin afterwards.
Cancel(a) ==
    /\ pc[a] \notin {"idle", "done", "panicked"}
    /\ cancelAt[a] = 0
    /\ cancelAt' = [cancelAt EXCEPT ![a] =
                        IF pc[a] = "loop" THEN idx[a] ELSE idx[a] + 1]
    /\ UNCHANGED <<configVars, admVars, poolVars, cacheVars, remoteVars,
                   admHist, copyHist, calls, regHist, filterCall, authVars,
                   credVars, lastCall>>

InitCancel ==
    /\ imageCopyPolicy \in CopyPolicies
    /\ imageSwapPolicy \in SwapPolicies
    /\ filters \in ConfiguredFilters
    /\ workload = SameImage
    /\ InitClient
    /\ repositories = {}
    /\ images = {}

NextCancel ==
    \/ Next
    \/ \E a \in Adm : Cancel(a)

SpecCancel == InitCancel /\ [][NextCancel]_vars

(***************************************************************************)
(* Pods that come back: what Mutate returned is admitted again.            *)
(***************************************************************************)
InitAgain ==
    /\ imageCopyPolicy \in CopyPolicies
    /\ imageSwapPolicy \in SwapPolicies
    /\ filters \in ConfiguredFilters
    /\ workload = Mirrored
    /\ InitClient
    /\ repositories = {}
    /\ images = {}

NextAgain ==
    \/ Next
    \/ \E a \in Adm : StartAgain(a)

SpecAgain == InitAgain /\ [][NextAgain]_vars

(***************************************************************************)
(* filterMatch on its own: any filter list, any context.                   *)
(***************************************************************************)
FilterNamespaces == {"kube-system", "default"}

\* The variables of Mutate, the pool and the registry client.
mainVars ==
    <<configVars, admVars, poolVars, cacheVars, remoteVars, admHist, copyHist,
      calls, regHist, cancelAt>>

InitFilter ==
    /\ imageCopyPolicy \in CopyPolicies
    /\ imageSwapPolicy \in SwapPolicies
    /\ filters \in SeqsUpTo(FilterExprs, MaxFilters)
    /\ InitState

\* Mutate's call filterMatch(filterCtx, p.filters) for one container.
ApplyFilterMatch ==
    /\ \E ns \in FilterNamespaces, c \in ContainerPool :
          filterCall' = [ctx |-> FilterContext(ns, c), filters |-> filters,
                         matched |-> filterMatch(FilterContext(ns, c), filters)]
    /\ UNCHANGED <<mainVars, authVars, credVars, lastCall>>

NextFilter == ApplyFilterMatch

SpecFilter == InitFilter /\ [][NextFilter]_vars

(***************************************************************************)
(* copyFn from the pull secrets on, as the webhook package reads them      *)
(* through its ImagePullSecretsProvider: the temp auth file.               *)
(***************************************************************************)
\* imagePullSecrets, err := p.imagePullSecretProvider.GetImagePullSecrets(pod)
\* An error is logged and the task goes on.
GetImagePullSecrets(t) ==
    /\ copyPc[t] = "secrets"
    /\ copyPc' = [copyPc EXCEPT ![t] = "authfile"]
    /\ UNCHANGED <<mainVars, filterCall, lastCall, credVars, authFile, authErr, cleanup,
                   files, exitPath>>

\* A cleanup that is registered only when AuthFile returned no error.
RegistersCleanupOnSuccess(file, err) == file # NoFile /\ ~err

\* if authFile != nil { defer func() { os.RemoveAll(authFile.Name()) }() }
RegistersCleanup(file, err) == file # NoFile

\* authFile, err := imagePullSecrets.AuthFile(): a file or nil, with or
\* without an error; the file it returns is on disk under a name of its own.
AuthFile(t) ==
    /\ copyPc[t] = "authfile"
    /\ \E file \in {NoFile, t}, err \in BOOLEAN :
          /\ authFile' = [authFile EXCEPT ![t] = file]
          /\ authErr' = [authErr EXCEPT ![t] = err]
          /\ files' = IF file # NoFile THEN files \cup {file} ELSE files
          /\ cleanup' = [cleanup EXCEPT ![t] = RegistersCleanup(file, err)]
    /\ copyPc' = [copyPc EXCEPT ![t] = "copy"]
    /\ UNCHANGED <<mainVars, filterCall, lastCall, credVars, exitPath>>

\* How the rest of the task can end: authFile.Name() on a nil file panics;
\* otherwise copyImage succeeds, fails (logged), or the task panics.
ExitPaths(file) ==
    IF file = NoFile THEN {"panic"} ELSE {"success", "failure", "panic"}

\* The deferred function runs when the task returns and when it panics.
RunDeferred(t) == IF cleanup[t] THEN files \ {authFile[t]} ELSE files

\* copyImage(src, authFile.Name(), targetImage, Credentials()) and the end
\* of the task.
CopyWithAuthFile(t) ==
    /\ copyPc[t] = "copy"
    /\ \E how \in ExitPaths(authFile[t]) :
          exitPath' = [exitPath EXCEPT ![t] = how]
    /\ files' = RunDeferred(t)
    /\ copyPc' = [copyPc EXCEPT ![t] = "returned"]
    /\ UNCHANGED <<mainVars, filterCall, lastCall, credVars, authFile, authErr, cleanup>>

InitAuthFile ==
    /\ imageCopyPolicy \in CopyPolicies
    /\ imageSwapPolicy \in SwapPolicies
    /\ filters \in ConfiguredFilters
    /\ InitState

NextAuthFile ==
    \E t \in CopyTasks :
        \/ GetImagePullSecrets(t)
        \/ AuthFile(t)
        \/ CopyWithAuthFile(t)

SpecAuthFile == InitAuthFile /\ [][NextAuthFile]_vars

(***************************************************************************)
(* The ECR client's credential: NewECRClient, scheduleTokenRenewal on the  *)
(* scheduler's goroutine, and Credentials on the goroutines of the probes  *)
(* and copy tasks.  No lock or atomic guards authToken.                    *)
(***************************************************************************)
\* The minutes before the expiry at which the renewal is scheduled.
RenewalLead == 2

\* When a token ECR issues can expire, in minutes.
ExpiryTimes == {10, 20}

\* Lengths of the tokens ECR issues (short, long).
TokenLens == {1, 2}

\* The words of a slice header.
Words2 == {"ptr", "len"}

\* What e.client.GetAuthorizationToken and the decoding can give: an error,
\* or a token in a fresh array.
TokenOutcomes ==
    {[err |-> TRUE, token |-> NoToken, expiresAt |-> 0]} \cup
    {[err |-> FALSE, token |-> [ptr |-> Cardinality(issued) + 1, len |-> l],
      expiresAt |-> t] : l \in TokenLens, t \in ExpiryTimes}

\* A renewal that stores what requestAuthToken returned before it looks at
\* the error: the empty token.
TokenAfterErrorStored(old) == NoToken

\* if err != nil { return err }, before e.authToken = token: the token in
\* effect stays.
TokenAfterError(old) == old

\* scheduleTokenRenewal: token, expiryAt, err := e.requestAuthToken();
\* if err != nil { return err }.  In NewECRClient the error leaves no
\* client; in a renewal job it ends the job.
RequestAuthToken ==
    /\ renewPc = "request"
    /\ Cardinality(issued) < MaxTokens
    /\ \E out \in TokenOutcomes :
          IF out.err
          THEN /\ renewPc' = "none"
               /\ client' = IF client = "new" THEN "failed" ELSE client
               /\ lastRenewal' = IF client = "new" THEN lastRenewal ELSE "failed"
               /\ authToken' = TokenAfterError(authToken)
               /\ UNCHANGED <<newToken, issued, expiryAt>>
          ELSE /\ renewPc' = "store"
               /\ newToken' = out.token
               /\ expiryAt' = out.expiresAt
               /\ issued' = issued \cup {out.token}
               /\ UNCHANGED <<client, lastRenewal, authToken>>
    /\ UNCHANGED <<mainVars, filterCall, lastCall, authVars, restWord,
                   pending, lastRead, renewalAt>>

\* e.authToken = token, a plain store of a multi-word value: one word of
\* the header first, in whichever order the build stores them.
StoreAuthTokenWord ==
    /\ renewPc = "store"
    /\ \E word \in Words2 :
          /\ authToken' = [authToken EXCEPT ![word] = newToken[word]]
          /\ restWord' = CHOOSE other \in Words2 : other # word
    /\ renewPc' = "storeRest"
    /\ UNCHANGED <<mainVars, filterCall, lastCall, authVars, client, newToken, pending,
                   issued, lastRenewal, lastRead, expiryAt, renewalAt>>

\* e.authToken = token, the other word.
StoreAuthTokenRest ==
    /\ renewPc = "storeRest"
    /\ authToken' = [authToken EXCEPT ![restWord] = newToken[restWord]]
    /\ restWord' = "none"
    /\ renewPc' = "schedule"
    /\ UNCHANGED <<mainVars, filterCall, lastCall, authVars, client, newToken, pending,
                   issued, lastRenewal, lastRead, expiryAt, renewalAt>>

\* renewalAt := expiryAt.Add(-2 * time.Minute)
RenewalAt(expiry) == expiry - RenewalLead

\* A job without a limit of runs: it stays scheduled after it has run.
LeftAfterRunUnlimited(jobs) == jobs

\* j.LimitRunsTo(1): the job that has run is not run again.
LeftAfterRun(jobs) == jobs - 1

\* j, _ := e.scheduler.Every(1).StartAt(renewalAt).Do(e.scheduleTokenRenewal)
\* j.LimitRunsTo(1); return nil.  NewECRClient then returns the client.
ScheduleRenewal ==
    /\ renewPc = "schedule"
    /\ pending' = pending + 1
    /\ renewalAt' = RenewalAt(expiryAt)
    /\ renewPc' = "none"
    /\ lastRenewal' = IF client = "new" THEN lastRenewal ELSE "ok"
    /\ client' = "ready"
    /\ UNCHANGED <<mainVars, filterCall, lastCall, authVars, authToken, newToken,
                   restWord, issued, lastRead, expiryAt>>

\* renewalAt has come: the scheduler runs the job, once.
RenewalFires ==
    /\ client = "ready"
    /\ renewPc = "none"
    /\ pending > 0
    /\ pending' = LeftAfterRun(pending)
    /\ renewPc' = "request"
    /\ UNCHANGED <<mainVars, filterCall, lastCall, authVars, authToken, client,
                   newToken, restWord, issued, lastRenewal, lastRead, expiryAt,
                   renewalAt>>

\* return string(e.authToken), on any goroutine that holds the client.
Credentials ==
    /\ client = "ready"
    /\ lastRead' = [ptr |-> authToken.ptr, len |-> authToken.len,
                    racing |-> renewPc \in {"store", "storeRest"}]
    /\ UNCHANGED <<mainVars, filterCall, lastCall, authVars, authToken, client, renewPc,
                   newToken, restWord, pending, issued, lastRenewal, expiryAt,
                   renewalAt>>

InitCredential ==
    /\ imageCopyPolicy \in CopyPolicies
    /\ imageSwapPolicy \in SwapPolicies
    /\ filters \in ConfiguredFilters
    /\ InitState

NextCredential ==
    \/ RequestAuthToken
    \/ StoreAuthTokenWord
    \/ StoreAuthTokenRest
    \/ ScheduleRenewal
    \/ RenewalFires
    \/ Credentials

SpecCredential == InitCredential /\ [][NextCredential]_vars

(***************************************************************************)
(* The registry client on its own, in front of a registry that others      *)
(* change: images pushed and deleted, repositories created and deleted.    *)
(***************************************************************************)
\* The references Mutate passes to ImageExists.
TargetRefs == {targetName(ref) : ref \in MirroredRefs}

\* The state of the webhook and its history, which these calls leave alone.
webhookVars ==
    <<configVars, admVars, poolVars, admHist, copyHist, calls, regHist,
      filterCall, authVars, credVars, cancelAt>>

\* ImageExists(ref), the whole call, next to what ImageExists gives for
\* each answer of the inspect when the cache is left out.
ImageExistsCall ==
    \E ref \in TargetRefs :
        LET cacheless == {ImageExistsProbe(ref, ok).ret :
                              ok \in InspectOutcomes(ref)}
        IN  \/ /\ CacheGet(ref)
               /\ lastCall' = [op |-> "ImageExists", key |-> ref,
                               ret |-> TRUE, cacheless |-> cacheless]
               /\ UNCHANGED <<cacheVars, remoteVars, webhookVars>>
            \/ /\ ~CacheGet(ref)
               /\ \E ok \in InspectOutcomes(ref) :
                     LET r == ImageExistsProbe(ref, ok)
                     IN  /\ CacheSet(r.set)
                         /\ lastCall' = [op |-> "ImageExists", key |-> ref,
                                         ret |-> r.ret, cacheless |-> cacheless]
               /\ UNCHANGED <<cache, remoteVars, webhookVars>>

\* CreateRepository(name), the whole call; ret is "an error is returned".
CreateRepositoryCall ==
    \E name \in RepoNames :
        LET cacheless == {CreateRepositoryRemote(name, answer).err :
                              answer \in CreateOutcomes(name)}
        IN  \/ /\ CacheGet(name)
               /\ lastCall' = [op |-> "CreateRepository", key |-> name,
                               ret |-> FALSE, cacheless |-> cacheless]
               /\ UNCHANGED <<cacheVars, remoteVars, webhookVars>>
            \/ /\ ~CacheGet(name)
               /\ \E answer \in CreateOutcomes(name) :
                     LET r == CreateRepositoryRemote(name, answer)
                     IN  /\ CacheSet(r.set)
                         /\ repositories' = IF answer = "created"
                                            THEN repositories \cup {name}
                                            ELSE repositories
                         /\ lastCall' = [op |-> "CreateRepository", key |-> name,
                                         ret |-> r.err, cacheless |-> cacheless]
               /\ UNCHANGED <<cache, images, webhookVars>>

\* Someone pushes an image into the registry.
PushImage ==
    /\ \E ref \in TargetRefs \ images : images' = images \cup {ref}
    /\ UNCHANGED <<cacheVars, repositories, webhookVars, lastCall>>

\* Someone, or a lifecycle rule, deletes an image of the registry.
DeleteImage ==
    /\ \E ref \in images : images' = images \ {ref}
    /\ UNCHANGED <<cacheVars, repositories, webhookVars, lastCall>>

\* Someone deletes a repository of the registry.
DeleteRepository ==
    /\ \E name \in repositories : repositories' = repositories \ {name}
    /\ UNCHANGED <<cacheVars, images, webhookVars, lastCall>>

NextRegistry ==
    \/ ImageExistsCall
    \/ CreateRepositoryCall
    \/ ProcessItems
    \/ PushImage
    \/ DeleteImage
    \/ DeleteRepository

\* The client reads neither the policies nor the filters.
InitRegistry ==
    /\ imageCopyPolicy = "Delayed"
    /\ imageSwapPolicy = "Exists"
    /\ filters \in ConfiguredFilters
    /\ InitState

SpecRegistry == InitRegistry /\ [][NextRegistry]_vars

(***************************************************************************)
(* Properties.                                                             *)
(***************************************************************************)
Indices(a) == 1..Len(admitted[a].containers)

\* Container i of admission a as it was admitted, and its image now.
Orig(a, i) == admitted[a].containers[i]

Image(a, i) == pod[a].containers[i].image

Unchanged(a, i) == Image(a, i) = Orig(a, i).image

Parsed(a, i) == ParseImageName(Orig(a, i).image)

\* The namespace the filters see: the Pod's, or the request's when the Pod
\* has none.
FilterNamespace(a) ==
    IF admitted[a].namespace = "" THEN request[a] ELSE admitted[a].namespace

IsInvalid(a, i) == Parsed(a, i).err

IsSelf(a, i) == ~IsInvalid(a, i) /\ Domain(Parsed(a, i)) = Endpoint

IsFiltered(a, i) ==
    /\ ~IsInvalid(a, i)
    /\ ~IsSelf(a, i)
    /\ filterMatch(FilterContext(FilterNamespace(a), Orig(a, i)), filters)

IsEligible(a, i) == ~IsInvalid(a, i) /\ ~IsSelf(a, i) /\ ~IsFiltered(a, i)

\* The target of container i: the endpoint, "/", the canonical source.
ExpectedTarget(a, i) == Endpoint \o <<"/">> \o RefString(Parsed(a, i))

\* No copy task of container i was put into the pool or started.
NoCopy(a, i) ==
    /\ <<a, i>> \notin submitted
    /\ \A r \in ran : ~(r.adm = a /\ r.idx = i)
    /\ \A k \in 1..Len(tasks) : ~(tasks[k].adm = a /\ tasks[k].idx = i)
    /\ \A e \in Execs : ~(exec[e].task.adm = a /\ exec[e].task.idx = i)

\* No registry client call was made for container i.
NoRegistryCall(a, i) == \A c \in calls : ~(c.adm = a /\ c.idx = i)

\* The copy task of container i is queued or running.
InFlight(a, i) ==
    \/ \E k \in 1..Len(tasks) : tasks[k].adm = a /\ tasks[k].idx = i
    \/ \E e \in Execs : exec[e].task.adm = a /\ exec[e].task.idx = i

\* What the loop does with container i.
Expected(a, i) ==
    IF IsInvalid(a, i) THEN "invalid"
    ELSE IF IsSelf(a, i) THEN "self"
    ELSE IF IsFiltered(a, i) THEN "filtered"
    ELSE "processed"

\* C1: under ImageSwapPolicy=Exists a container's image differs from the
\* admitted one only if the ImageExists call of its swap step returned true,
\* and it is then the target; when that call returned false the image is the
\* admitted one.
C1_ExistsSwapsOnlyIfImageExists ==
    imageSwapPolicy = "Exists" =>
        \A a \in Adm : \A i \in Indices(a) :
            /\ ~Unchanged(a, i) =>
                  /\ swapExists[a][i] = "true"
                  /\ Image(a, i) = ExpectedTarget(a, i)
            /\ swapExists[a][i] = "false" => Unchanged(a, i)

\* A Pod under Exists with one container rewritten after ImageExists
\* returned true and one left alone after it returned false.
C1_Witness ==
    /\ imageSwapPolicy = "Exists"
    /\ \E a \in Adm : \E i, j \in Indices(a) :
          /\ pc[a] = "done"
          /\ swapExists[a][i] = "true" /\ ~Unchanged(a, i)
          /\ swapExists[a][j] = "false" /\ Unchanged(a, j)

\* C2: a container whose registry domain is the endpoint keeps its image,
\* has no copy task submitted or run under any copy policy, and causes no
\* ImageExists or CreateRepository call.
C2_SelfRegistryIsSkipped ==
    \A a \in Adm : \A i \in Indices(a) :
        IsSelf(a, i) =>
            /\ Unchanged(a, i)
            /\ NoCopy(a, i)
            /\ NoRegistryCall(a, i)
            /\ outcome[a][i] \in {"pending", "self"}

\* A returned admission whose Pod has an image of the endpoint next to a
\* container that was processed.
C2_Witness ==
    \E a \in Adm : \E i, j \in Indices(a) :
        /\ pc[a] = "done"
        /\ IsSelf(a, i) /\ outcome[a][i] = "self"
        /\ outcome[a][j] = "processed"

\* C3: a container for which filterMatch returns true keeps its image and
\* has no copy task submitted or run, under every copy and swap policy.
C3_FilteredIsSkipped ==
    \A a \in Adm : \A i \in Indices(a) :
        IsFiltered(a, i) =>
            /\ Unchanged(a, i)
            /\ NoCopy(a, i)
            /\ NoRegistryCall(a, i)
            /\ outcome[a][i] \in {"pending", "filtered"}

\* A returned admission in kube-system whose container the filter matched.
C3_Witness ==
    \E a \in Adm : \E i \in Indices(a) :
        /\ pc[a] = "done"
        /\ IsFiltered(a, i) /\ outcome[a][i] = "filtered"

\* C4: under Immediate a container's swap step, and the return of Mutate,
\* come only after its copy task has returned, and the task runs on a
\* worker; under Force the task runs on the Mutate caller, never enters the
\* pool, and the swap step comes after it; under Delayed the task runs on a
\* worker and the caller never waits for it.
C4_CopyPolicyDecidesWaiting ==
    /\ imageCopyPolicy \in {"Immediate", "Force"} =>
          \A a \in Adm :
              /\ pc[a] \in {"swap", "swapProbe"} =>
                    /\ <<a, idx[a]>> \in finished
                    /\ ~InFlight(a, idx[a])
              /\ pc[a] = "done" =>
                    \A i \in Indices(a) :
                        outcome[a][i] = "processed" =>
                            <<a, i>> \in finished /\ ~InFlight(a, i)
    /\ imageCopyPolicy = "Immediate" =>
          /\ \A r \in ran : r.by = "worker" /\ <<r.adm, r.idx>> \in submitted
          /\ \A a \in Adm : exec[Caller(a)] = Idle
    /\ imageCopyPolicy = "Force" =>
          /\ submitted = {}
          /\ tasks = <<>>
          /\ \A w \in Workers : exec[Worker(w)] = Idle
          /\ \A r \in ran : r.by = "caller"
    /\ imageCopyPolicy = "Delayed" =>
          /\ \A r \in ran : r.by = "worker" /\ <<r.adm, r.idx>> \in submitted
          /\ \A a \in Adm : pc[a] \notin {"wait", "force"}

\* Under Delayed, Mutate has returned with a rewritten or checked container
\* whose copy task is still queued or running.
C4_Witness ==
    /\ imageCopyPolicy = "Delayed"
    /\ \E a \in Adm : \E i \in Indices(a) :
          /\ pc[a] = "done"
          /\ outcome[a][i] = "processed"
          /\ InFlight(a, i)
          /\ <<a, i>> \notin finished

\* C5: Mutate never fails: every admission that has started is in its loop
\* or has returned (nil error, the Pod), whatever the collaborators answer.
C5_MutateNeverFails == \A a \in Adm : pc[a] # "panicked"

\* C6: a container whose image does not parse keeps its image, has no copy
\* and no registry call, and does not stop the loop: when Mutate returns,
\* every other container has been through its own steps.
C6_InvalidImageIsSkipped ==
    \A a \in Adm : \A i \in Indices(a) :
        IsInvalid(a, i) =>
            /\ Unchanged(a, i)
            /\ NoCopy(a, i)
            /\ NoRegistryCall(a, i)
            /\ outcome[a][i] \in {"pending", "invalid"}
            /\ pc[a] = "done" =>
                  \A j \in Indices(a) :
                      /\ outcome[a][j] = Expected(a, j)
                      /\ Expected(a, j) = "processed" =>
                            \/ <<a, j>> \in submitted
                            \/ [adm |-> a, idx |-> j, by |-> "caller"] \in ran

\* A returned admission whose first image is invalid and whose second
\* container was processed.
C6_Witness ==
    \E a \in Adm :
        /\ pc[a] = "done"
        /\ Len(admitted[a].containers) = 2
        /\ IsInvalid(a, 1) /\ outcome[a][1] = "invalid"
        /\ outcome[a][2] = "processed"

\* C7: under ImageSwapPolicy=Always, when Mutate returns, every container
\* whose image parses, is not of the endpoint and is not filtered has the
\* image endpoint "/" canonical source, whatever the state of the mirror and
\* of its copy task; containers of returned admissions with distinct
\* canonical sources have distinct images.
C7_AlwaysRewritesToTarget ==
    imageSwapPolicy = "Always" =>
        \A a \in Adm : pc[a] = "done" =>
            \A i \in Indices(a) : IsEligible(a, i) =>
                /\ Image(a, i) = ExpectedTarget(a, i)
                /\ \A b \in Adm : pc[b] = "done" =>
                      \A j \in Indices(b) :
                          /\ IsEligible(b, j)
                          /\ RefString(Parsed(a, i)) # RefString(Parsed(b, j))
                          => Image(a, i) # Image(b, j)

\* Under Always, Mutate has returned with two containers of distinct sources
\* rewritten, one to a target the mirror does not hold, its copy task still
\* queued or running.
C7_Witness ==
    /\ imageSwapPolicy = "Always"
    /\ \E a \in Adm : \E i, j \in Indices(a) :
          /\ pc[a] = "done"
          /\ IsEligible(a, i) /\ IsEligible(a, j)
          /\ RefString(Parsed(a, i)) # RefString(Parsed(a, j))
          /\ Image(a, i) = ExpectedTarget(a, i)
          /\ Image(a, j) = ExpectedTarget(a, j)
          /\ ExpectedTarget(a, i) \notin images
          /\ InFlight(a, i)

\* The filter evaluates to the boolean true.
IsTrue(results) == ~results.err /\ results.kind = "bool" /\ results.b

\* C8: filterMatch returns true exactly when some filter k evaluates to the
\* boolean true and no filter before k fails to evaluate; non-boolean and
\* false results are passed over, an error before k gives false, and so does
\* an empty list.
C8_FilterMatchIsFirstTrueBeforeError ==
    LET fs == filterCall.filters
        tree == filterCall.ctx
    IN  filterCall.matched =
            (\E k \in 1..Len(fs) :
                /\ IsTrue(Search(fs[k], tree))
                /\ \A j \in 1..(k - 1) : ~Search(fs[j], tree).err)

\* filterMatch returned true on a list whose first filter is not a boolean
\* and whose second is false.
C8_Witness ==
    /\ filterCall.matched
    /\ filterCall.filters = <<FilterObj, FilterNsNe, FilterNsEq>>

\* C9 as stated: at most one remote create per name succeeds, "already
\* exists" is returned as success, and every call that starts after a call
\* for its name has returned success makes no remote request.
C9_CreateRepositoryCacheServedAfterSuccess ==
    /\ \A n \in RepoNames : creates[n] <= 1
    /\ \A r \in createRets : r.answer = "exists" => ~r.err
    /\ \A r \in createCalls : r.afterSuccess => ~r.remote

\* C9 as amended: at most one remote create per name succeeds, "already
\* exists" is returned as success, and every call that starts when the cache
\* holds its name makes no remote request.
C9_CreateRepositoryIdempotent ==
    /\ \A n \in RepoNames : creates[n] <= 1
    /\ \A r \in createRets : r.answer = "exists" => ~r.err
    /\ \A r \in createCalls : r.cached => ~r.remote

\* One remote create of a name succeeded; a second call for it started
\* after that success and before the cache held the name, went to the
\* remote, was answered "already exists" and returned success.
C9_Witness ==
    \E r \in createRets :
        /\ r.answer = "exists" /\ ~r.err
        /\ creates[r.name] = 1
        /\ \E c \in createCalls :
              c.name = r.name /\ c.afterSuccess /\ ~c.cached /\ c.remote

\* The keys of the cache, applied or still buffered.
CacheKeys == cache \cup {setBuf[k] : k \in 1..Len(setBuf)}

\* C10: every key of the cache is a reference an inspect succeeded for or a
\* repository name a create got success or "already exists" for; a failed
\* inspect returns false, a failed create returns the error, and neither
\* hands a key to the cache.
C10_CacheHoldsOnlyConfirmed ==
    /\ \A key \in CacheKeys :
          \/ \E r \in inspects : r.ok /\ r.ref = key
          \/ \E r \in createRets : r.answer \in {"created", "exists"} /\ r.name = key
    /\ \A r \in inspects : ~r.ok => ~r.ret /\ r.set = <<>>
    /\ \A r \in createRets : r.answer = "error" => r.err /\ r.set = <<>>

\* The cache holds a reference and a repository name, after an inspect and
\* a create that failed.
C10_Witness ==
    /\ \E r \in inspects : r.ok /\ r.ref \in cache
    /\ \E r \in createRets : ~r.err /\ r.name \in cache
    /\ \E r \in inspects : ~r.ok
    /\ \E r \in createRets : r.answer = "error"

C12_EndsEarlyByOwnPullPolicy ==
    \A d \in decided :
        /\ d.early <=>
              (d.exists /\ Orig(d.adm, d.idx).imagePullPolicy # "Always")
        /\ d.early =>
              \A c \in calls :
                  c.adm = d.adm /\ c.idx = d.idx => c.op = "ImageExists"
        /\ ~d.early /\ <<d.adm, d.idx>> \in finished =>
              \A op \in {"CreateRepository", "copyImage"} :
                  [adm |-> d.adm, idx |-> d.idx, op |-> op] \in calls

\* C13: every value Credentials returns, also while a renewal is storing a
\* new token, is whole: it is one of the tokens ECR issued, the one in
\* effect before the renewal or the new one.
C13_CredentialsReturnsWholeToken ==
    lastRead # NoRead =>
        [ptr |-> lastRead.ptr, len |-> lastRead.len] \in issued

\* C14: after a renewal job has failed to get a token, the renewal is
\* retried: a renewal job is pending or running again.
C14_FailedRenewalIsRetried ==
    client = "ready" /\ lastRenewal = "failed" =>
        pending > 0 \/ renewPc # "none"

\* C15: what ImageExists and CreateRepository return with the cache is what
\* a client without the cache can return in the same state of the registry,
\* whatever was pushed, created or deleted in between.
C15_CacheDoesNotChangeResults ==
    lastCall # NoCall => lastCall.ret \in lastCall.cacheless

\* C16: Mutate changes nothing of the Pod but the image of containers: the
\* namespace, the pull secrets, the number of containers and the name and
\* pull policy of each are as admitted, during Mutate and when it returns.
C16_OnlyImagesChange ==
    \A a \in Adm :
        pc[a] \notin {"idle", "panicked"} =>
            /\ pod[a].namespace = admitted[a].namespace
            /\ pod[a].imagePullSecrets = admitted[a].imagePullSecrets
            /\ Len(pod[a].containers) = Len(admitted[a].containers)
            /\ \A i \in Indices(a) :
                  /\ pod[a].containers[i].name = Orig(a, i).name
                  /\ pod[a].containers[i].imagePullPolicy =
                        Orig(a, i).imagePullPolicy

\* C17: a copy task shares no mutable state with Mutate or with the other
\* tasks of its admission: the container a task reads for its pull policy
\* is the one it was created for, whatever Mutate has done since.
C17_TasksShareNoMutableState ==
    \A d \in decided : d.container = Orig(d.adm, d.idx)

\* A container of a returned admission whose image is the target.
Rewritten ==
    \E a \in Adm : \E i \in Indices(a) :
        pc[a] = "done" /\ ~Unchanged(a, i) /\ Image(a, i) = ExpectedTarget(a, i)

\* C18: under Delayed and Exists, with admissions of the same image arriving
\* again and again, copy tasks run, and the repository creation, the copy
\* and the inspect of a present target not failing for ever, an admission is
\* eventually answered with the image rewritten to the target.
C18_RepeatedAdmissionsConverge ==
    imageCopyPolicy = "Delayed" /\ imageSwapPolicy = "Exists" => <>Rewritten

\* An admission that arrived before the copy finished was answered with the
\* image unchanged, and a later one of the same image with the target.
C18_Witness ==
    /\ imageCopyPolicy = "Delayed" /\ imageSwapPolicy = "Exists"
    /\ \E a, b \in Adm : \E i \in Indices(a), j \in Indices(b) :
          /\ pc[a] = "done" /\ pc[b] = "done"
          /\ Orig(a, i) = Orig(b, j)
          /\ swapExists[a][i] = "false" /\ Unchanged(a, i)
          /\ <<a, i>> \in finished
          /\ swapExists[b][j] = "true" /\ Image(b, j) = ExpectedTarget(b, j)

\* Mutate is in Submit and the send to the pool's queue cannot go through.
Blocked(a) ==
    /\ pc[a] = "dispatch"
    /\ DispatchMode(imageCopyPolicy).pool
    /\ Submit(tasks, closure[a]).blocks

\* Every worker of the pool is running a copyFn.
AllWorkersBusy == \A w \in Workers : exec[Worker(w)].pc # "idle"

\* C19 as claimed: under Delayed no Mutate caller is ever held in Submit
\* with the queue full and every worker busy.
C19_SubmitNeverBlocks ==
    imageCopyPolicy = "Delayed" =>
        \A a \in Adm : ~(Blocked(a) /\ AllWorkersBusy)

\* C19: under Delayed the queue never holds more than its capacity, a task
\* that was submitted is queued, running or finished (none is dropped), and
\* Mutate has gone past the dispatch of a container only with its task
\* handed to the pool.
C19_SubmitKeepsEveryTask ==
    imageCopyPolicy = "Delayed" =>
        /\ Len(tasks) <= MaxCapacity
        /\ \A t \in submitted : InFlight(t[1], t[2]) \/ t \in finished
        /\ \A a \in Adm : \A i \in Indices(a) :
              outcome[a][i] = "processed" => <<a, i>> \in submitted

\* Mutate is held in Submit for its last container: the queue is full, every
\* worker is busy, and the tasks of the containers before are all in the
\* pool and not finished.
C19_Witness ==
    /\ imageCopyPolicy = "Delayed"
    /\ \E a \in Adm :
          /\ Blocked(a) /\ AllWorkersBusy
          /\ Len(tasks) = MaxCapacity
          /\ idx[a] = MaxWorkers + MaxCapacity + 1
          /\ \A i \in 1..(idx[a] - 1) :
                <<a, i>> \in submitted /\ InFlight(a, i)

\* C20 as claimed: whatever policies the ImageSwapper was constructed with,
\* no Mutate invocation reaches the panic of the default case of a policy
\* switch.
C20_NoUnknownPolicyFailureInMutate ==
    \A a \in Adm : \A i \in Indices(a) : outcome[a][i] # "unknownPolicy"

\* C21 as claimed: at no time are two copyFn at their copyImage call for
\* the same target.
C21_OneCopyPerTarget ==
    \A e, f \in Execs :
        /\ exec[e].pc = "copy" /\ exec[f].pc = "copy"
        /\ exec[e].task.target = exec[f].task.target
        => e = f

\* C22 as claimed: a container whose loop iteration begins after the context
\* of its admission was cancelled has no copy submitted or run and keeps its
\* image.
C22_CancelledAdmissionStops ==
    \A a \in Adm : \A i \in Indices(a) :
        cancelAt[a] # 0 /\ i >= cancelAt[a] =>
            /\ NoCopy(a, i)
            /\ Unchanged(a, i)

\* C23 as claimed: under Delayed the pull policy a copy task reads when it
\* decides to end early is the one of the container it was created for.
C23_TaskReadsOwnPullPolicy ==
    imageCopyPolicy = "Delayed" =>
        \A d \in decided :
            d.container.imagePullPolicy = Orig(d.adm, d.idx).imagePullPolicy

\* Admission a was called with the Pod that admission b returned.
AppliedToOutput(a, b) ==
    /\ a # b
    /\ pc[b] = "done"
    /\ pc[a] # "idle"
    /\ admitted[a] = pod[b]

\* C24: when Mutate is applied to the Pod an earlier Mutate returned, every
\* container the earlier call rewrote is stopped by the same-registry check:
\* its image stays, no copy task is submitted or run for it and no registry
\* call is made.
C24_MutateIdempotentOnOutput ==
    \A a, b \in Adm :
        AppliedToOutput(a, b) =>
            \A i \in Indices(b) :
                ~Unchanged(b, i) =>
                    /\ Unchanged(a, i)
                    /\ NoCopy(a, i)
                    /\ NoRegistryCall(a, i)
                    /\ outcome[a][i] \in {"pending", "self"}

\* Mutate has returned for the Pod an earlier call had rewritten, having
\* skipped the rewritten container as one of the target registry.
C24_Witness ==
    \E a, b \in Adm :
        /\ AppliedToOutput(a, b)
        /\ pc[a] = "done"
        /\ \E i \in Indices(b) :
              /\ ~Unchanged(b, i)
              /\ Image(b, i) = ExpectedTarget(b, i)
              /\ outcome[a][i] = "self"

\* C25: under Immediate or Force with Exists, the swap step of a container
\* begins only when its copyFn has returned, and a container whose swap
\* step found the target is rewritten to it in that admission.
C25_CopyCompletesBeforeSwapCheck ==
    imageCopyPolicy \in {"Immediate", "Force"} /\ imageSwapPolicy = "Exists" =>
        \A a \in Adm : \A i \in Indices(a) :
            /\ (pc[a] \in {"swap", "swapProbe"} /\ idx[a] = i) \/ swapExists[a][i] # "none"
                  => <<a, i>> \in finished /\ ~InFlight(a, i)
            /\ swapExists[a][i] = "true"
                  => ~Unchanged(a, i) /\ Image(a, i) = ExpectedTarget(a, i)

\* An admission in front of an empty mirror whose own copyFn copied the
\* image, and whose swap step then found the target and rewrote the image.
C25_Witness ==
    /\ imageCopyPolicy \in {"Immediate", "Force"} /\ imageSwapPolicy = "Exists"
    /\ \E a \in Adm : \E i \in Indices(a) :
          /\ pc[a] = "done"
          /\ [adm |-> a, idx |-> i, op |-> "copyImage"] \in calls
          /\ Cardinality({c \in calls : c.op = "copyImage"}) = 1
          /\ ExpectedTarget(a, i) \in images
          /\ swapExists[a][i] = "true"
          /\ Image(a, i) = ExpectedTarget(a, i)

\* The names passed to CreateRepository and the references passed to
\* ImageExists so far.
RepositoryKeys == {c.name : c \in createCalls}

ImageKeys ==
    {ExpectedTarget(c.adm, c.idx) : c \in {d \in calls : d.op = "ImageExists"}}

\* C26: no name passed to CreateRepository is a reference passed to
\* ImageExists; a key of the cache that is such a reference was put there
\* after a successful inspect of it, and one that is such a name after a
\* create of it that returned success.
C26_CacheKeysDoNotInterfere ==
    /\ RepositoryKeys \cap ImageKeys = {}
    /\ \A key \in CacheKeys :
          /\ key \in ImageKeys => \E r \in inspects : r.ok /\ r.ref = key
          /\ key \in RepositoryKeys =>
                \E r \in createRets : ~r.err /\ r.name = key

\* The cache holds a repository name and an image reference, each of which
\* was passed to its own call only.
C26_Witness ==
    \E name \in RepositoryKeys, ref \in ImageKeys :
        /\ name \in cache /\ ref \in cache
        /\ name \notin ImageKeys /\ ref \notin RepositoryKeys

\* The copyFn of container i is in or past its CreateRepository call and
\* has not called copyImage yet.
BeforeCopy(a, i) ==
    \E e \in Execs :
        /\ exec[e].task.adm = a /\ exec[e].task.idx = i
        /\ exec[e].pc \in {"createRemote", "copy"}

\* C27: a copyFn that has called CreateRepository, whatever that returned,
\* is on its way to copyImage or has called it; none returns in between.
C27_CopyRunsAfterCreateError ==
    \A c \in calls :
        c.op = "CreateRepository" =>
            \/ BeforeCopy(c.adm, c.idx)
            \/ [adm |-> c.adm, idx |-> c.idx, op |-> "copyImage"] \in calls

\* Every CreateRepository so far has failed, and a copyFn that made such a
\* call has run copyImage and returned.
C27_Witness ==
    /\ createRets # {}
    /\ \A r \in createRets : r.err
    /\ \E t \in finished :
          /\ [adm |-> t[1], idx |-> t[2], op |-> "CreateRepository"] \in calls
          /\ [adm |-> t[1], idx |-> t[2], op |-> "copyImage"] \in calls

\* C28: there is never more than one renewal job; once NewECRClient has
\* returned the client and as long as no token request has failed, either
\* one job is pending, set to start RenewalLead minutes before the expiry of
\* the credential in effect, or the job has fired and is on its way to
\* storing the next credential and scheduling the next job.
C28_OneRenewalPending ==
    /\ pending <= 1
    /\ client = "ready" /\ lastRenewal # "failed" =>
          \/ /\ renewPc = "none"
             /\ pending = 1
             /\ authToken = newToken
             /\ renewalAt + RenewalLead = expiryAt
          \/ /\ renewPc # "none"
             /\ pending = 0

\* A renewal job has fired, stored a second credential and scheduled the
\* next job, for a token that expires at another time than the first.
C28_Witness ==
    /\ client = "ready" /\ lastRenewal = "ok"
    /\ renewPc = "none" /\ pending = 1
    /\ Cardinality(issued) = 2
    /\ authToken.ptr = 2
    /\ renewalAt + RenewalLead = expiryAt

\* C29: after a renewal job whose token request failed, the credential is
\* the one in effect before the attempt, the last token that was stored,
\* and that is what Credentials returns from then on; when the request of
\* NewECRClient fails there is no client: no credential was stored, no job
\* was scheduled and Credentials is never called.
C29_FailedRequestKeepsCredential ==
    /\ lastRenewal = "failed" =>
          /\ client = "ready"
          /\ authToken = newToken /\ authToken \in issued
    /\ client = "failed" =>
          /\ authToken = NoToken
          /\ pending = 0 /\ renewPc = "none"
          /\ lastRead = NoRead

\* A renewal job has failed after an earlier one had succeeded, and
\* Credentials returns the token of the earlier one.
C29_Witness ==
    /\ client = "ready" /\ lastRenewal = "failed"
    /\ Cardinality(issued) = 2
    /\ authToken.ptr = 2
    /\ lastRead = [ptr |-> authToken.ptr, len |-> authToken.len, racing |-> FALSE]

====
